---- MODULE Spec2Model ----
(***************************************************************************)
(* Model of polars-time's groupby (src/polars/polars-time/src/groupby.rs). *)
(* Timestamps are counted in seconds instead of nanoseconds; the kernel    *)
(* only compares them, so the scale does not matter.  Row indices are      *)
(* 0-based as in the source; TLA+ sequences are 1-based, so time[j] of the *)
(* source is time[j + 1] here.                                             *)
(***************************************************************************)
EXTENDS Integers, Sequences, FiniteSets, TLC

\* ---- bounds of the explored inputs ----
\* arbitrary timestamps (sorted or not) with arbitrary interval sequences
MaxTs == 1
MaxLen == 3
MaxIntervals == 3
\* sorted timestamps with the intervals a window produces for their bounds
MaxWinTs == 4
MaxWinLen == 4
MaxEvery == 2
MaxPeriod == 3
MaxOffset == 1

\* ---- the input of test_group_tuples ----
TestTs == <<0, 15, 30, 45, 60, 75, 90>>
TestEvery == 30
TestPeriod == 30
TestOffset == 0

VARIABLES time, intervals, n, latest_start, i, group, group_tuples,
          built_for, iters, pc

vars == <<time, intervals, n, latest_start, i, group, group_tuples,
          built_for, iters, pc>>

\* ---- collaborators (bounds.rs, window.rs) ----
\* Bounds::from(time): the minimum and the maximum timestamp.
BoundsFrom(ts) ==
    [start |-> CHOOSE a \in {ts[x] : x \in 1..Len(ts)} : \A x \in 1..Len(ts) : a <= ts[x],
     stop |-> CHOOSE a \in {ts[x] : x \in 1..Len(ts)} : \A x \in 1..Len(ts) : a >= ts[x]]

\* Bounds::is_member: start inclusive, stop exclusive.
is_member(b, ts) == ts >= b.start /\ ts < b.stop

\* Window::truncate: the window start at or before t, shifted by offset.
truncate(every, offset, t) == (t - (t % every)) + offset

RECURSIVE BoundsIter(_, _, _, _)
BoundsIter(every, period, start, boundary) ==
    IF start < boundary.stop
    THEN <<[start |-> start, stop |-> start + period]>>
         \o BoundsIter(every, period, start + every, boundary)
    ELSE <<>>

\* Window::get_overlapping_bounds_iter, collected into a sequence.
get_overlapping_bounds_iter(every, period, offset, boundary) ==
    BoundsIter(every, period, truncate(every, offset, boundary.start), boundary)

\* ---- inputs ----
TimeSeqs == UNION {[1..l -> 0..MaxTs] : l \in 0..MaxLen}

\* Bounds::new asserts start <= stop; a window has a positive period
IntervalSet == {b \in [start : 0..MaxTs, stop : 1..(MaxTs + 1)] : b.start < b.stop}

IntervalSeqs == UNION {[1..l -> IntervalSet] : l \in 0..MaxIntervals}

\* non-empty sorted timestamp sequences
SortedTimeSeqs ==
    {ts \in UNION {[1..l -> 0..MaxWinTs] : l \in 1..MaxWinLen} :
        \A x \in 1..(Len(ts) - 1) : ts[x] <= ts[x + 1]}

\* the interval sequences of all windows over the bounds of ts
WindowIntervals(ts) ==
    {get_overlapping_bounds_iter(every, period, offset, BoundsFrom(ts)) :
        every \in 1..MaxEvery, period \in 1..MaxPeriod, offset \in 0..MaxOffset}

TestIntervals ==
    get_overlapping_bounds_iter(TestEvery, TestPeriod, TestOffset, BoundsFrom(TestTs))

\* ---- helpers of groupby ----
\* the interval of the current iteration of the for loop
bi == intervals[n]

\* time.get(j): Some(ts) inside the slice, None outside
GetIsSome(j) == j >= 0 /\ j < Len(time)

\* usize::saturating_sub(1)
SaturatingSub1M(x) == x
SaturatingSub2M(x) == IF x < 2 THEN 0 ELSE x - 2
SaturatingSub1(x) == IF x = 0 THEN 0 ELSE x - 1

\* i >= time.len(), the guard that short-circuits the indexing time[i]
PastEndM(j) == j > Len(time)
PastEnd(j) == j >= Len(time)

\* !bi.is_member(time[i])
RunEndsM(b, j) == FALSE
RunEnds(b, j) == ~is_member(b, time[j + 1])

\* ---- state after the prologue of groupby ----
Init ==
    /\ \/ time \in TimeSeqs /\ intervals \in IntervalSeqs
       \/ time \in SortedTimeSeqs /\ intervals \in WindowIntervals(time)
       \/ time = TestTs /\ intervals = TestIntervals
    /\ n = 0
    /\ latest_start = 0
    /\ i = 0
    /\ group = <<>>
    /\ group_tuples = <<>>
    /\ built_for = <<>>
    /\ iters = 0
    /\ pc = "for"

\* for bi in ...: the iterator yields the next interval; let mut group = vec![]
NextInterval ==
    /\ pc = "for"
    /\ n < Len(intervals)
    /\ n' = n + 1
    /\ group' = <<>>
    /\ pc' = "advance"
    /\ UNCHANGED <<time, intervals, latest_start, i, group_tuples, built_for, iters>>

\* the iterator is exhausted: return group_tuples
Return ==
    /\ pc = "for"
    /\ n = Len(intervals)
    /\ pc' = "done"
    /\ UNCHANGED <<time, intervals, n, latest_start, i, group, group_tuples,
                   built_for, iters>>

\* start-search loop, first statement: latest_start += 1
Advance ==
    /\ pc = "advance"
    /\ latest_start' = latest_start + 1
    /\ iters' = iters + 1
    /\ pc' = "probe"
    /\ UNCHANGED <<time, intervals, n, i, group, group_tuples, built_for>>

\* start-search loop, the match on time.get(latest_start - 1)
Probe ==
    /\ pc = "probe"
    /\ IF latest_start = 0
       THEN pc' = "panic"
       ELSE IF GetIsSome(latest_start - 1)
            THEN IF is_member(bi, time[latest_start])
                 THEN pc' = "backoff"
                 ELSE pc' = "advance"
            ELSE pc' = "backoff"
    /\ UNCHANGED <<time, intervals, n, latest_start, i, group, group_tuples,
                   built_for, iters>>

\* latest_start = latest_start.saturating_sub(1); let mut i = latest_start
BackOff ==
    /\ pc = "backoff"
    /\ latest_start' = SaturatingSub1(latest_start)
    /\ i' = latest_start'
    /\ pc' = "collect"
    /\ UNCHANGED <<time, intervals, n, group, group_tuples, built_for, iters>>

\* member-collection loop, one iteration
CollectStep ==
    /\ pc = "collect"
    /\ group' = Append(group, i)
    /\ iters' = iters + 1
    /\ IF PastEnd(i)
       THEN pc' = "emit" /\ i' = i
       ELSE IF i >= Len(time)
            THEN pc' = "panic" /\ i' = i
            ELSE IF RunEnds(bi, i)
                 THEN pc' = "emit" /\ i' = i
                 ELSE pc' = "collect" /\ i' = i + 1
    /\ UNCHANGED <<time, intervals, n, latest_start, group_tuples, built_for>>

\* if !group.is_empty() { group_tuples.push((group[0], group)) }
Emit ==
    /\ pc = "emit"
    /\ IF group # <<>>
       THEN /\ group_tuples' = Append(group_tuples,
                                      [anchor |-> group[1], members |-> group])
            /\ built_for' = Append(built_for, n)
       ELSE UNCHANGED <<group_tuples, built_for>>
    /\ pc' = "for"
    /\ UNCHANGED <<time, intervals, n, latest_start, i, group, iters>>

Next ==
    \/ NextInterval
    \/ Return
    \/ Advance
    \/ Probe
    \/ BackOff
    \/ CollectStep
    \/ Emit

Spec == Init /\ [][Next]_vars

\* ---- vocabulary of the properties ----
Done == pc = "done"

NumTs == Len(time)

Sorted == \A a, b \in 1..Len(time) : a <= b => time[a] <= time[b]

StartOrdered ==
    \A a, b \in 1..Len(intervals) : a <= b => intervals[a].start <= intervals[b].start

\* 0-based row indices whose timestamp lies in interval k
MembersOf(k) == {j \in 0..(Len(time) - 1) : is_member(intervals[k], time[j + 1])}

SeqRange(s) == {s[x] : x \in 1..Len(s)}

\* the emitted groups built for interval k
GroupsFor(k) == {g \in 1..Len(group_tuples) : built_for[g] = k}

\* 0-based index of the first timestamp equal to t
FirstIdx(t) == CHOOSE j \in 0..(Len(time) - 1) :
                  /\ time[j + 1] = t
                  /\ \A h \in 0..(j - 1) : time[h + 1] # t

Run(a, b) == [x \in 1..(b - a + 1) |-> a + x - 1]

\* every = period: each window opens where the previous one closes
BackToBack ==
    /\ intervals # <<>>
    /\ \A k \in 1..Len(intervals) :
          intervals[k].stop - intervals[k].start = intervals[1].stop - intervals[1].start
    /\ \A k \in 1..(Len(intervals) - 1) : intervals[k + 1].start = intervals[k].stop

EdgesOnTimestamps ==
    \A k \in 1..Len(intervals) :
       intervals[k].start \in SeqRange(time) /\ intervals[k].stop \in SeqRange(time)

MemberLists == [g \in 1..Len(group_tuples) |-> group_tuples[g].members]

\* no timestamp is a member of two intervals of the sequence
DisjointMembership ==
    \A a, b \in 1..Len(intervals) : a # b => MembersOf(a) \cap MembersOf(b) = {}

\* C1: for sorted timestamps and back-to-back windows whose edges fall on
\* timestamps, there is one group per window and its member list is the run of
\* indices from the opening-edge timestamp to the closing-edge timestamp, so
\* adjacent groups share exactly the boundary index; the test's input yields
\* [0,1,2], [2,3,4], [4,5,6].
C1_BackToBackGroups ==
    (Done /\ Sorted /\ BackToBack /\ EdgesOnTimestamps) =>
        /\ Len(group_tuples) = Len(intervals)
        /\ \A k \in 1..Len(intervals) :
              /\ built_for[k] = k
              /\ group_tuples[k].members =
                    Run(FirstIdx(intervals[k].start), FirstIdx(intervals[k].stop))
        /\ \A k \in 1..(Len(intervals) - 1) :
              SeqRange(group_tuples[k].members) \cap SeqRange(group_tuples[k + 1].members)
                 = {FirstIdx(intervals[k].stop)}
        /\ (time = TestTs /\ intervals = TestIntervals) =>
              MemberLists = <<(<<0, 1, 2>>), (<<2, 3, 4>>), (<<4, 5, 6>>)>>

C1_Witness ==
    /\ Done /\ time = TestTs /\ intervals = TestIntervals
    /\ Len(intervals) = 3 /\ BackToBack /\ EdgesOnTimestamps
    /\ Len(group_tuples) = 3

\* C2: completeness - for sorted timestamps and start-ordered intervals every
\* row whose timestamp is a member of interval k is in the member list of the
\* group emitted for interval k.
C2_Completeness ==
    (Done /\ Sorted /\ StartOrdered) =>
        \A k \in 1..Len(intervals) : \A j \in MembersOf(k) :
            \E g \in GroupsFor(k) : j \in SeqRange(group_tuples[g].members)

\* C3: membership - every index of an emitted member list, except a trailing
\* sentinel equal to len(timestamps), is a member of the interval the group was
\* built for.
C3_Membership ==
    \A g \in 1..Len(group_tuples) : \A x \in 1..Len(group_tuples[g].members) :
        LET idx == group_tuples[g].members[x] IN
        \/ idx = NumTs /\ x = Len(group_tuples[g].members)
        \/ idx \in MembersOf(built_for[g])

\* C4: an interval without a member timestamp contributes no group: the number
\* of groups is the number of intervals that have a member, and no group is
\* empty.
C4_NoGroupWithoutMember ==
    Done =>
        /\ Len(group_tuples) = Cardinality({k \in 1..Len(intervals) : MembersOf(k) # {}})
        /\ \A g \in 1..Len(group_tuples) : group_tuples[g].members # <<>>

\* C5: one timestamp and one interval containing it give exactly the group [0]
\* with anchor 0.
C5_SingleTimestamp ==
    (Done /\ Len(time) = 1 /\ Len(intervals) = 1 /\ is_member(intervals[1], time[1])) =>
        group_tuples = <<[anchor |-> 0, members |-> <<0>>]>>

\* C6: an empty timestamp sequence, or an empty interval sequence, gives an
\* empty group sequence.
C6_EmptyInput ==
    (Done /\ (time = <<>> \/ intervals = <<>>)) => group_tuples = <<>>

\* C7: groups are emitted in interval order, anchors never decrease from one
\* group to the next, and the cursor latest_start never falls below the anchor
\* of a group already emitted.
C7_Order ==
    /\ \A g \in 1..(Len(group_tuples) - 1) :
          /\ group_tuples[g].anchor <= group_tuples[g + 1].anchor
          /\ built_for[g] < built_for[g + 1]
    /\ \A g \in 1..Len(group_tuples) : group_tuples[g].anchor <= latest_start

C7_Witness ==
    /\ Done /\ Sorted /\ StartOrdered /\ Len(group_tuples) >= 3
    /\ group_tuples[3].anchor < NumTs
    /\ group_tuples[1].anchor < group_tuples[2].anchor
    /\ group_tuples[2].anchor = group_tuples[3].anchor

\* C8 as stated: for sorted timestamps and start-ordered intervals the iterations
\* of both loops together never exceed 2 * (len(timestamps) + intervals).
C8_LinearWork ==
    (Sorted /\ StartOrdered) => iters <= 2 * (Len(time) + Len(intervals))

\* C8 amended: for sorted timestamps and start-ordered intervals of which no two
\* share a member timestamp, the iterations of both loops together never exceed
\* 2 * (len(timestamps) + intervals).
C8_LinearWorkDisjoint ==
    (Sorted /\ StartOrdered /\ DisjointMembership) => iters <= 2 * (Len(time) + Len(intervals))

C8_Witness ==
    /\ Done /\ Sorted /\ StartOrdered /\ DisjointMembership
    /\ Len(intervals) >= 3 /\ Len(time) >= 3
    /\ \A k \in 1..Len(intervals) : MembersOf(k) # {}
    /\ iters >= Len(time) + Len(intervals)

\* C9: every member list is a run of consecutive indices, the anchor is its
\* first element, every element is at most len(timestamps), and len(timestamps)
\* occurs only as the last element.
C9_Shape ==
    \A g \in 1..Len(group_tuples) :
        LET m == group_tuples[g].members IN
        /\ m # <<>>
        /\ group_tuples[g].anchor = m[1]
        /\ \A x \in 1..(Len(m) - 1) : m[x + 1] = m[x] + 1
        /\ \A x \in 1..Len(m) : m[x] <= NumTs /\ (m[x] = NumTs => x = Len(m))

C9_Witness ==
    /\ Done
    /\ \E g \in 1..Len(group_tuples) :
          /\ Len(group_tuples[g].members) >= 3
          /\ group_tuples[g].members[Len(group_tuples[g].members)] = NumTs
    /\ \E g \in 1..Len(group_tuples) :
          group_tuples[g].members[Len(group_tuples[g].members)] < NumTs

\* C10: no panic in the two loops for any timestamps and intervals: no index
\* out of bounds, latest_start - 1 never taken at 0, latest_start in
\* 0..len+1 everywhere and in 0..len between intervals, and each loop starts an
\* iteration only with its index at most len, so it ends within len + 1 rounds.
C10_NoPanic ==
    /\ pc # "panic"
    /\ latest_start \in 0..(NumTs + 1)
    /\ pc = "probe" => latest_start >= 1
    /\ pc \in {"for", "done", "advance", "collect", "emit"} => latest_start <= NumTs
    /\ pc = "collect" => i <= NumTs /\ Len(group) = i - latest_start
    /\ iters <= 2 * (NumTs + 1) * Len(intervals)

C10_Witness ==
    /\ Done /\ ~Sorted /\ ~StartOrdered
    /\ Len(intervals) = 3
    /\ latest_start = NumTs
    /\ \E g \in 1..Len(group_tuples) : Len(group_tuples[g].members) >= 2
====
